---------------------------- MODULE Spec2Model ----------------------------
(***************************************************************************)
(* A model of currender's camera classes (include/currender/camera.h) and  *)
(* of the Renderer readiness protocol (include/renderer.h).                *)
(*                                                                         *)
(* Numbers.  A C++ int is a TLA+ integer.  A float or double is an exact   *)
(* extended rational <<n, d>> with d >= 0 in lowest terms: d > 0 is the    *)
(* number n/d, <<1,0>> and <<-1,0>> are +inf and -inf, <<0,0>> is NaN.     *)
(* Division by zero therefore behaves as IEEE-754 does (x/0 = +-inf,       *)
(* 0/0 = NaN); rounding and the sign of zero are not modelled.             *)
(*                                                                         *)
(* Vectors.  An Eigen::Vector3f is a record [tag, v] with v a triple of    *)
(* rationals.  tag "vec" is the vector v itself.  tag "unit" is v / |v|    *)
(* for a triple v of coprime integers: the exact value of a normalised     *)
(* vector, whose length is irrational in general.  Two unit vectors are    *)
(* equal exactly when their records are.  tag "uninit" is an element a     *)
(* std::vector::resize default-constructed and nothing wrote since, and    *)
(* tag "oob" is a read outside a table (undefined behaviour): neither      *)
(* equals any value an accessor computes.                                  *)
(***************************************************************************)
EXTENDS Integers, Sequences, FiniteSets, TLC

(* ------------------------------ bounds -------------------------------- *)

\* Widths and heights range over -1 .. MaxSize.
MaxSize == 2

(* --------------------------- exact rationals -------------------------- *)

Abs(i) == IF i < 0 THEN -i ELSE i

Sgn(i) == IF i > 0 THEN 1 ELSE IF i < 0 THEN -1 ELSE 0

RECURSIVE Gcd(_, _)
Gcd(a, b) == IF b = 0 THEN a ELSE Gcd(b, a % b)

\* n/d in lowest terms, for any integers n and d.
Frac(n, d) ==
  IF d = 0 THEN <<Sgn(n), 0>>
  ELSE LET g == Gcd(Abs(n), Abs(d))
       IN  <<(Sgn(d) * n) \div g, Abs(d) \div g>>

\* static_cast<float>(i), i * 0.5f, and the float constants of the source.
Flt(i) == <<i, 1>>
Half(i) == Frac(i, 2)
NaN == <<0, 0>>

IsFinite(a) == a[2] > 0
IsNaN(a) == a = NaN
IsPositive(a) == a[1] > 0

FNeg(a) == <<-a[1], a[2]>>

FAdd(a, b) ==
  IF a[2] = 0 /\ b[2] = 0
    THEN (IF a = b THEN a ELSE NaN)
    ELSE Frac(a[1] * b[2] + b[1] * a[2], a[2] * b[2])

FSub(a, b) == FAdd(a, FNeg(b))

FMul(a, b) == Frac(a[1] * b[1], a[2] * b[2])

FDiv(a, b) ==
  LET s == IF b[1] < 0 THEN -1 ELSE 1
  IN  Frac(s * a[1] * b[2], s * a[2] * b[1])

\* C++ integer division truncates toward zero.
IntDiv(a, b) == Sgn(a) * Sgn(b) * (Abs(a) \div Abs(b))

(* ------------------------------ vectors ------------------------------- *)

Vec(a, b, c) == [tag |-> "vec", v |-> <<a, b, c>>]
Uninit == [tag |-> "uninit", v |-> <<NaN, NaN, NaN>>]
OutOfBounds == [tag |-> "oob", v |-> <<NaN, NaN, NaN>>]

VAdd(p, q) == Vec(FAdd(p.v[1], q.v[1]), FAdd(p.v[2], q.v[2]), FAdd(p.v[3], q.v[3]))
VSub(p, q) == Vec(FSub(p.v[1], q.v[1]), FSub(p.v[2], q.v[2]), FSub(p.v[3], q.v[3]))
VScale(s, p) == Vec(FMul(s, p.v[1]), FMul(s, p.v[2]), FMul(s, p.v[3]))

Lcm(a, b) == (a * b) \div Gcd(a, b)

\* The triple of coprime integers on the ray of the finite non-zero triple v.
Primitive(v) ==
  LET l == Lcm(Lcm(v[1][2], v[2][2]), v[3][2])
      i == [k \in 1..3 |-> (v[k][1] * l) \div v[k][2]]
      g == Gcd(Gcd(Abs(i[1]), Abs(i[2])), Abs(i[3]))
  IN  <<Flt(i[1] \div g), Flt(i[2] \div g), Flt(i[3] \div g)>>

\* Eigen's normalize(): every component divided by the norm.  A NaN component
\* makes the norm NaN, an infinite one makes it +inf, a zero vector makes it 0.
Normalize(p) ==
  LET v == p.v
      norm == IF \E k \in 1..3 : IsNaN(v[k]) THEN NaN
              ELSE IF \E k \in 1..3 : ~IsFinite(v[k]) THEN <<1, 0>>
              ELSE Flt(0)
  IN  IF (\A k \in 1..3 : IsFinite(v[k])) /\ (\E k \in 1..3 : v[k][1] # 0)
        THEN [tag |-> "unit", v |-> Primitive(v)]
        ELSE Vec(FDiv(v[1], norm), FDiv(v[2], norm), FDiv(v[3], norm))

\* A 3x3 integer matrix is a triple of rows.
Col(m, j) == <<m[1][j], m[2][j], m[3][j]>>

\* m.cast<float>() * p.  The poses of the model are rigid, so a unit vector
\* stays one: (m v)/|v| = (m v)/|m v|.
MatVec(m, p) ==
  LET w == [i \in 1..3 |->
              FAdd(FAdd(FMul(Flt(m[i][1]), p.v[1]), FMul(Flt(m[i][2]), p.v[2])),
                   FMul(Flt(m[i][3]), p.v[3]))]
  IN  [tag |-> p.tag, v |-> <<w[1], w[2], w[3]>>]

\* col.cast<float>() of an integer column.
FltVec(c) == Vec(Flt(c[1]), Flt(c[2]), Flt(c[3]))

(* ------------------------- poses (Eigen::Affine3d) -------------------- *)

Identity3 == <<<<1, 0, 0>>, <<0, 1, 0>>, <<0, 0, 1>>>>

\* The rotation by a third of a turn about (1,1,1): x -> y, y -> z, z -> x.
RotCycle == <<<<0, 0, 1>>, <<1, 0, 0>>, <<0, 1, 0>>>>

Affine(R, t) == [R |-> R, t |-> t]

AffineIdentity == Affine(Identity3, <<0, 0, 0>>)

Det3(m) ==
    m[1][1] * (m[2][2] * m[3][3] - m[2][3] * m[3][2])
  - m[1][2] * (m[2][1] * m[3][3] - m[2][3] * m[3][1])
  + m[1][3] * (m[2][1] * m[3][2] - m[2][2] * m[3][1])

\* The inverse of an integer matrix of determinant +1 or -1 (adjugate / det).
Inverse3(m) ==
  LET d == Det3(m)
      Cof(i, j) ==
        LET r == IF i = 1 THEN <<2, 3>> ELSE IF i = 2 THEN <<3, 1>> ELSE <<1, 2>>
            c == IF j = 1 THEN <<2, 3>> ELSE IF j = 2 THEN <<3, 1>> ELSE <<1, 2>>
        IN  m[r[1]][c[1]] * m[r[2]][c[2]] - m[r[1]][c[2]] * m[r[2]][c[1]]
  IN  [i \in 1..3 |-> [j \in 1..3 |-> Cof(j, i) * d]]

IntMatVec(m, t) ==
  [i \in 1..3 |-> m[i][1] * t[1] + m[i][2] * t[2] + m[i][3] * t[3]]

\* Affine3d::inverse(): the linear part inverted, the translation -R^-1 t.
AffineInverse(a) ==
  LET Ri == Inverse3(a.R)
      ti == IntMatVec(Ri, a.t)
  IN  Affine(Ri, [i \in 1..3 |-> -ti[i]])

(* ------------------------------- Camera ------------------------------- *)

\* The outcome of a call on a camera: the object afterwards, and whether the
\* call left by an exception (std::length_error out of std::vector::resize).
Returned(c) == [cam |-> c, raised |-> FALSE]
Threw(c) == [cam |-> c, raised |-> TRUE]

Camera_set_size(c, width, height) ==
  [c EXCEPT !.width_ = width, !.height_ = height]

Camera_set_c2w(c, c2w) ==
  LET w2c == AffineInverse(c2w)
  IN  [c EXCEPT !.c2w_ = c2w,
                !.w2c_ = w2c,
                !.c2w_R_f_ = c2w.R,
                !.c2w_t_f_ = FltVec(c2w.t),
                !.x_direc_ = FltVec(Col(c2w.R, 1)),
                !.y_direc_ = FltVec(Col(c2w.R, 2)),
                !.z_direc_ = FltVec(Col(c2w.R, 3)),
                !.w2c_R_f_ = w2c.R,
                !.w2c_t_f_ = FltVec(w2c.t)]

\* The members of a Camera before any constructor body ran; the float copies
\* of the pose are written by the set_c2w call every constructor makes.
CameraMembers(width, height, c2w, w2c) ==
  [width_ |-> width, height_ |-> height, c2w_ |-> c2w, w2c_ |-> w2c,
   c2w_R_f_ |-> Identity3, c2w_t_f_ |-> Uninit,
   x_direc_ |-> Uninit, y_direc_ |-> Uninit, z_direc_ |-> Uninit,
   w2c_R_f_ |-> Identity3, w2c_t_f_ |-> Uninit]

Camera_Camera ==
  Camera_set_c2w(CameraMembers(-1, -1, AffineIdentity, AffineIdentity),
                 AffineIdentity)

Camera_Camera_wh(width, height) ==
  Camera_set_c2w(CameraMembers(width, height, AffineIdentity, AffineIdentity),
                 AffineIdentity)

Camera_Camera_whp(width, height, c2w) ==
  Camera_set_c2w(CameraMembers(width, height, c2w, AffineInverse(c2w)), c2w)

(* ---------------------------- ray tables ------------------------------ *)

\* std::vector::resize(n) for n >= 0: the first elements kept, new ones
\* default-constructed (an Eigen vector's default constructor writes nothing).
Resize(table, n) ==
  [i \in 1..n |-> IF i <= Len(table) THEN table[i] ELSE Uninit]

\* The pixels the nested loop of InitRayTable visits: 0 <= y < height_,
\* 0 <= x < width_.
LoopPixels(c) == (0 .. c.width_ - 1) \X (0 .. c.height_ - 1)

\* The nested loop of InitRayTable on one table: element y * width_ + x gets
\* ray[<<x, y>>].  The loop body runs only when both sizes are positive, and
\* then element i is the pixel x = i mod width_, y = i div width_.
FillTable(table, c, ray) ==
  [i \in 1..Len(table) |->
     IF c.width_ > 0 /\ c.height_ > 0 /\ i <= c.width_ * c.height_
       THEN ray[<<(i - 1) % c.width_, (i - 1) \div c.width_>>]
       ELSE table[i]]

\* table[y * width_ + x]; outside the table the read is undefined behaviour.
TableAt(table, c, x, y) ==
  LET i == y * c.width_ + x
  IN  IF 0 <= i /\ i < Len(table) THEN table[i + 1] ELSE OutOfBounds

(* ---------------------------- PinholeCamera --------------------------- *)

\* static_cast<float>(std::tan(radians<float>(deg) * 0.5)) at the angles the
\* model uses, where the tangent of the half angle is rational.
TanHalfDeg(deg) ==
  CASE deg = 90 -> Flt(1)
    [] deg = 270 -> Flt(-1)

Pinhole_org_ray_c(c, x, y) == Vec(Flt(0), Flt(0), Flt(0))

\* (mutant) the camera-frame origin returned for the world frame.
Pinhole_org_ray_w_CameraOrigin(c, x, y) == Vec(Flt(0), Flt(0), Flt(0))

Pinhole_org_ray_w(c, x, y) == c.c2w_t_f_

Pinhole_ray_c(c, x, y) ==
  Normalize(Vec(FDiv(FSub(x, c.principal_point_[1]), c.focal_length_[1]),
                FDiv(FSub(y, c.principal_point_[2]), c.focal_length_[2]),
                Flt(1)))

Pinhole_ray_w(c, x, y) == MatVec(c.c2w_R_f_, Pinhole_ray_c(c, x, y))

Pinhole_org_ray_c_int(c, x, y) == TableAt(c.org_ray_c_table_, c, x, y)
Pinhole_org_ray_w_int(c, x, y) == TableAt(c.org_ray_w_table_, c, x, y)
Pinhole_ray_c_int(c, x, y) == TableAt(c.ray_c_table_, c, x, y)
Pinhole_ray_w_int(c, x, y) == TableAt(c.ray_w_table_, c, x, y)

Pinhole_InitRayTable(c) ==
  LET n == c.width_ * c.height_
  IN  IF n < 0
        THEN Threw(c)
        ELSE Returned(
          [c EXCEPT
             !.org_ray_c_table_ = FillTable(Resize(@, n), c,
               [p \in LoopPixels(c) |-> Pinhole_org_ray_c(c, Flt(p[1]), Flt(p[2]))]),
             !.org_ray_w_table_ = FillTable(Resize(@, n), c,
               [p \in LoopPixels(c) |-> Pinhole_org_ray_w(c, Flt(p[1]), Flt(p[2]))]),
             !.ray_c_table_ = FillTable(Resize(@, n), c,
               [p \in LoopPixels(c) |-> Pinhole_ray_c(c, Flt(p[1]), Flt(p[2]))]),
             !.ray_w_table_ = FillTable(Resize(@, n), c,
               [p \in LoopPixels(c) |-> Pinhole_ray_w(c, Flt(p[1]), Flt(p[2]))])])

\* The members PinholeCamera adds to Camera, the tables empty.
PinholeMembers(base, principal_point, focal_length) ==
  base @@ [kind |-> "Pinhole",
           principal_point_ |-> principal_point,
           focal_length_ |-> focal_length,
           org_ray_c_table_ |-> <<>>, org_ray_w_table_ |-> <<>>,
           ray_c_table_ |-> <<>>, ray_w_table_ |-> <<>>]

\* fov_x() and fov_y() are degrees(2 * atan(t)) with t the tangent of half the
\* angle; an angle is represented by that tangent, as in TanHalfDeg, and two
\* values of degrees(2 * atan(t)) are equal exactly when their t are.
Pinhole_fov_x(c) == FDiv(Half(c.width_), c.focal_length_[1])

Pinhole_fov_y(c) == FDiv(Half(c.height_), c.focal_length_[2])

\* (mutant) the principal point moved to the centre of the new size.
Pinhole_set_size_Recentred(c, width, height) ==
  Pinhole_InitRayTable(
    [Camera_set_size(c, width, height) EXCEPT
       !.principal_point_ = <<FSub(Half(width), Half(1)),
                              FSub(Half(height), Half(1))>>])

Pinhole_set_size(c, width, height) ==
  Pinhole_InitRayTable(Camera_set_size(c, width, height))

Pinhole_set_c2w(c, c2w) == Pinhole_InitRayTable(Camera_set_c2w(c, c2w))

\* (mutant) the principal point stored and the tables left as they were.
Pinhole_set_principal_point_NoRebuild(c, principal_point) ==
  Returned([c EXCEPT !.principal_point_ = principal_point])

Pinhole_set_principal_point(c, principal_point) ==
  Pinhole_InitRayTable([c EXCEPT !.principal_point_ = principal_point])

Pinhole_set_focal_length(c, focal_length) ==
  Pinhole_InitRayTable([c EXCEPT !.focal_length_ = focal_length])

Pinhole_set_fov_x(c, fov_x_deg) ==
  LET f == FDiv(Half(c.width_), TanHalfDeg(fov_x_deg))
  IN  Pinhole_InitRayTable([c EXCEPT !.focal_length_ = <<f, f>>])

Pinhole_set_fov_y(c, fov_y_deg) ==
  LET f == FDiv(Half(c.height_), TanHalfDeg(fov_y_deg))
  IN  Pinhole_InitRayTable([c EXCEPT !.focal_length_ = <<f, f>>])

MinusOne2 == <<Flt(-1), Flt(-1)>>

PinholeCamera == Pinhole_InitRayTable(PinholeMembers(Camera_Camera, MinusOne2, MinusOne2))

PinholeCamera_wh(width, height) ==
  Pinhole_InitRayTable(
    PinholeMembers(Camera_Camera_wh(width, height), MinusOne2, MinusOne2))

\* set_fov_y assigns both channels of the focal length, which the member
\* initialisers left unset; a throw out of it ends the construction there.
PinholeCamera_fov(base, fov_y_deg) ==
  LET pp == <<FSub(Half(base.width_), Half(1)), FSub(Half(base.height_), Half(1))>>
      r == Pinhole_set_fov_y(PinholeMembers(base, pp, <<NaN, NaN>>), fov_y_deg)
  IN  IF r.raised THEN r ELSE Pinhole_InitRayTable(r.cam)

PinholeCamera_wh_fov(width, height, fov_y_deg) ==
  PinholeCamera_fov(Camera_Camera_wh(width, height), fov_y_deg)

PinholeCamera_whp(width, height, c2w) ==
  Pinhole_InitRayTable(
    PinholeMembers(Camera_Camera_whp(width, height, c2w), MinusOne2, MinusOne2))

PinholeCamera_whp_fov(width, height, c2w, fov_y_deg) ==
  PinholeCamera_fov(Camera_Camera_whp(width, height, c2w), fov_y_deg)

PinholeCamera_whp_pf(width, height, c2w, principal_point, focal_length) ==
  Pinhole_InitRayTable(
    PinholeMembers(Camera_Camera_whp(width, height, c2w),
                   principal_point, focal_length))

\* Project: the three overloads give the image point <<u, v>> and, the first
\* and the third, the depth.
\* (mutant) the division by the depth forgotten.
Pinhole_ProjectUV_NoDivide(c, p) ==
  <<FAdd(FMul(c.focal_length_[1], p[1]), c.principal_point_[1]),
    FAdd(FMul(c.focal_length_[2], p[2]), c.principal_point_[2])>>

Pinhole_ProjectUV(c, p) ==
  <<FAdd(FMul(FDiv(c.focal_length_[1], p[3]), p[1]), c.principal_point_[1]),
    FAdd(FMul(FDiv(c.focal_length_[2], p[3]), p[2]), c.principal_point_[2])>>

Pinhole_Project3(c, p) ==
  LET uv == Pinhole_ProjectUV(c, p) IN <<uv[1], uv[2], p[3]>>

Pinhole_Project2(c, p) == Pinhole_ProjectUV(c, p)

Pinhole_Project2d(c, p) == [image_p |-> Pinhole_ProjectUV(c, p), d |-> p[3]]

Pinhole_Unproject3(c, q) ==
  <<FDiv(FMul(FSub(q[1], c.principal_point_[1]), q[3]), c.focal_length_[1]),
    FDiv(FMul(FSub(q[2], c.principal_point_[2]), q[3]), c.focal_length_[2]),
    q[3]>>

Pinhole_Unproject2d(c, q, d) ==
  <<FDiv(FMul(FSub(q[1], c.principal_point_[1]), d), c.focal_length_[1]),
    FDiv(FMul(FSub(q[2], c.principal_point_[2]), d), c.focal_length_[2]),
    d>>

(* ----------------------------- OrthoCamera ---------------------------- *)

Ortho_org_ray_c(c, x, y) ==
  Vec(FSub(x, Flt(IntDiv(c.width_, 2))), FSub(y, Flt(IntDiv(c.height_, 2))), Flt(0))

Ortho_org_ray_w(c, x, y) ==
  LET offset_x == VScale(FSub(x, Half(c.width_)), c.x_direc_)
      offset_y == VScale(FSub(y, Half(c.height_)), c.y_direc_)
  IN  VAdd(VAdd(c.c2w_t_f_, offset_x), offset_y)

Ortho_ray_c(c, x, y) == Vec(Flt(0), Flt(0), Flt(1))

\* (mutant) the camera-frame axis returned for the world frame.
Ortho_ray_w_CameraAxis(c, x, y) == Vec(Flt(0), Flt(0), Flt(1))

Ortho_ray_w(c, x, y) == c.z_direc_

Ortho_org_ray_c_int(c, x, y) == TableAt(c.org_ray_c_table_, c, x, y)
Ortho_org_ray_w_int(c, x, y) == TableAt(c.org_ray_w_table_, c, x, y)
Ortho_ray_c_int(c, x, y) == TableAt(c.ray_c_table_, c, x, y)
Ortho_ray_w_int(c, x, y) == TableAt(c.ray_w_table_, c, x, y)

Ortho_InitRayTable(c) ==
  LET n == c.width_ * c.height_
  IN  IF n < 0
        THEN Threw(c)
        ELSE Returned(
          [c EXCEPT
             !.org_ray_c_table_ = FillTable(Resize(@, n), c,
               [p \in LoopPixels(c) |-> Ortho_org_ray_c(c, Flt(p[1]), Flt(p[2]))]),
             !.org_ray_w_table_ = FillTable(Resize(@, n), c,
               [p \in LoopPixels(c) |-> Ortho_org_ray_w(c, Flt(p[1]), Flt(p[2]))]),
             !.ray_c_table_ = FillTable(Resize(@, n), c,
               [p \in LoopPixels(c) |-> Ortho_ray_c(c, Flt(p[1]), Flt(p[2]))]),
             !.ray_w_table_ = FillTable(Resize(@, n), c,
               [p \in LoopPixels(c) |-> Ortho_ray_w(c, Flt(p[1]), Flt(p[2]))])])

OrthoMembers(base) ==
  base @@ [kind |-> "Ortho",
           org_ray_c_table_ |-> <<>>, org_ray_w_table_ |-> <<>>,
           ray_c_table_ |-> <<>>, ray_w_table_ |-> <<>>]

OrthoCamera == Ortho_InitRayTable(OrthoMembers(Camera_Camera))

OrthoCamera_wh(width, height) ==
  Ortho_InitRayTable(OrthoMembers(Camera_Camera_wh(width, height)))

OrthoCamera_whp(width, height, c2w) ==
  Ortho_InitRayTable(OrthoMembers(Camera_Camera_whp(width, height, c2w)))

Ortho_set_size(c, width, height) ==
  Ortho_InitRayTable(Camera_set_size(c, width, height))

Ortho_set_c2w(c, c2w) == Ortho_InitRayTable(Camera_set_c2w(c, c2w))

Ortho_Project3(c, p) == p

Ortho_Project2(c, p) == <<p[1], p[2]>>

\* (mutant) the image point moved to the image centre, as org_ray_c's offset is.
Ortho_Project2d_Centred(c, p) ==
  [image_p |-> <<FAdd(p[1], Flt(IntDiv(c.width_, 2))),
                 FAdd(p[2], Flt(IntDiv(c.height_, 2)))>>,
   d |-> p[3]]

Ortho_Project2d(c, p) == [image_p |-> <<p[1], p[2]>>, d |-> p[3]]

Ortho_Unproject3(c, q) == q

Ortho_Unproject2d(c, q, d) == <<q[1], q[2], d>>

(* ------------------ the Camera interface (virtual calls) -------------- *)

org_ray_c(c, x, y) ==
  IF c.kind = "Pinhole" THEN Pinhole_org_ray_c(c, x, y) ELSE Ortho_org_ray_c(c, x, y)

org_ray_w(c, x, y) ==
  IF c.kind = "Pinhole" THEN Pinhole_org_ray_w(c, x, y) ELSE Ortho_org_ray_w(c, x, y)

ray_c(c, x, y) ==
  IF c.kind = "Pinhole" THEN Pinhole_ray_c(c, x, y) ELSE Ortho_ray_c(c, x, y)

ray_w(c, x, y) ==
  IF c.kind = "Pinhole" THEN Pinhole_ray_w(c, x, y) ELSE Ortho_ray_w(c, x, y)

org_ray_c_int(c, x, y) ==
  IF c.kind = "Pinhole" THEN Pinhole_org_ray_c_int(c, x, y)
                        ELSE Ortho_org_ray_c_int(c, x, y)

org_ray_w_int(c, x, y) ==
  IF c.kind = "Pinhole" THEN Pinhole_org_ray_w_int(c, x, y)
                        ELSE Ortho_org_ray_w_int(c, x, y)

ray_c_int(c, x, y) ==
  IF c.kind = "Pinhole" THEN Pinhole_ray_c_int(c, x, y) ELSE Ortho_ray_c_int(c, x, y)

ray_w_int(c, x, y) ==
  IF c.kind = "Pinhole" THEN Pinhole_ray_w_int(c, x, y) ELSE Ortho_ray_w_int(c, x, y)

Project3(c, p) ==
  IF c.kind = "Pinhole" THEN Pinhole_Project3(c, p) ELSE Ortho_Project3(c, p)

Project2(c, p) ==
  IF c.kind = "Pinhole" THEN Pinhole_Project2(c, p) ELSE Ortho_Project2(c, p)

Project2d(c, p) ==
  IF c.kind = "Pinhole" THEN Pinhole_Project2d(c, p) ELSE Ortho_Project2d(c, p)

Unproject3(c, q) ==
  IF c.kind = "Pinhole" THEN Pinhole_Unproject3(c, q) ELSE Ortho_Unproject3(c, q)

Unproject2d(c, q, d) ==
  IF c.kind = "Pinhole" THEN Pinhole_Unproject2d(c, q, d)
                        ELSE Ortho_Unproject2d(c, q, d)

(* ------------------------------- inputs ------------------------------- *)

Sizes == -1..MaxSize

\* The sizes the field-of-view constructors are called with.
FovSizes == 1..MaxSize

Poses ==
  {Affine(Identity3, <<0, 0, 0>>), Affine(RotCycle, <<1, -2, 3>>)}

PrincipalPoints == {<<Half(1), Flt(1)>>}

FocalLengths ==
  {<<Flt(2), Half(1)>>, <<Flt(0), Flt(1)>>}

FovDegs == {90, 270}

\* Camera-space points, on and behind the image plane too, and image points
\* with a depth.
Points ==
  {<<x, y, Flt(z)>> : x \in {Flt(-1), Flt(2)}, y \in {Half(1), Flt(-3)},
                      z \in -1..2}

ImagePoints ==
  {<<u, v, Flt(d)>> : u \in {Flt(0), Half(3)}, v \in {Flt(-1), Flt(1)}, d \in -1..2}

(* ------------------------------- state -------------------------------- *)

VARIABLES
  cam,    \* the camera object: its members, by their names in the source
  call,   \* the last call made on it: [op, args, raised]
  probe,  \* a caller's last Project or Unproject: [op, in, out, chained, first]
  rend,   \* the Renderer: mesh_initialized_, camera_, mesh_, option_
  outs,   \* the caller's color, depth and mask images
  rcall,  \* the last call made on the Renderer: [op, ret]
  hist,   \* what the Renderer was told so far: [mesh, camera]
  pipe    \* the render in progress: its pipeline, option, images and work done

camvars == <<cam, call, probe>>
rendvars == <<rend, outs, rcall, hist, pipe>>
vars == <<cam, call, probe, rend, outs, rcall, hist, pipe>>

Idle == [op |-> "none", in |-> <<>>, out |-> <<>>, chained |-> FALSE, first |-> <<>>]

(* ------------------------------ Renderer ------------------------------ *)

Null == [null |-> TRUE]
NullMesh == [null |-> TRUE, name |-> "null", faces |-> <<>>]

\* shared_ptr<Camera>: null, or the camera object of this model.
CameraPtr == [null |-> FALSE]

\* Meshes by their faces: one and two triangles, none, and a face of two
\* indices.
Mesh(name, faces) == [null |-> FALSE, name |-> name, faces |-> faces]

Meshes ==
  {Mesh("triangle", <<<<1, 2, 3>>>>),
   Mesh("quad", <<<<1, 2, 3>>, <<1, 3, 4>>>>),
   Mesh("empty", <<>>),
   Mesh("segment", <<<<1, 2>>>>)}

\* RendererOption's member initialisers; interp is BILINEAR = 1.
RendererOption ==
  [use_vertex_color |-> FALSE, depth_scale |-> Flt(1), interp |-> "BILINEAR",
   backface_culling |-> TRUE]

Options ==
  {RendererOption, [RendererOption EXCEPT !.use_vertex_color = TRUE, !.interp = "NN"]}

\* (mutant) a renderer that starts out prepared.
Renderer_Renderer_Prepared ==
  [mesh_initialized_ |-> TRUE, camera_ |-> Null, mesh_ |-> NullMesh,
   option_ |-> RendererOption]

\* Renderer's member initialisers.
Renderer_Renderer ==
  [mesh_initialized_ |-> FALSE, camera_ |-> Null, mesh_ |-> NullMesh,
   option_ |-> RendererOption]

Renderer_set_option(r, option) == [r EXCEPT !.option_ = option]

\* (mutant) the mesh replaced and the prepared flag kept.
Renderer_set_mesh_KeepsFlag(r, mesh) == [r EXCEPT !.mesh_ = mesh]

\* A mesh assignment makes the renderer unprepared again.
Renderer_set_mesh(r, mesh) == [r EXCEPT !.mesh_ = mesh, !.mesh_initialized_ = FALSE]

Renderer_set_camera(r, camera) == [r EXCEPT !.camera_ = camera]

\* prepare_mesh fails without a mesh, on a face of other than 3 indices and when
\* the acceleration structure cannot be built (no face); else the mesh is
\* flattened, bounded and indexed, and the renderer is prepared.
Renderer_prepare_mesh(r) ==
  IF \/ r.mesh_.null
     \/ \E i \in 1..Len(r.mesh_.faces) : Len(r.mesh_.faces[i]) # 3
     \/ r.mesh_.faces = <<>>
    THEN [rend |-> [r EXCEPT !.mesh_initialized_ = FALSE], ret |-> FALSE]
    ELSE [rend |-> [r EXCEPT !.mesh_initialized_ = TRUE], ret |-> TRUE]

Renderer_ready(r) == r.mesh_initialized_ /\ ~r.camera_.null

Untouched == [written |-> FALSE]

\* No render in progress.
NoRender == [pipeline |-> "none"]

\* render: a precondition failure leaves the images alone; else the three
\* images are allocated at the camera's size and filled from the mesh.
Renderer_render(r, c, images) ==
  IF ~Renderer_ready(r)
    THEN [outs |-> images, ret |-> FALSE]
    ELSE [outs |-> [written |-> TRUE, width |-> c.width_, height |-> c.height_,
                    mesh |-> r.mesh_.name, option |-> r.option_],
          ret |-> TRUE]

RendererInit ==
  /\ rend = Renderer_Renderer
  /\ outs = Untouched
  /\ rcall = [op |-> "Renderer", ret |-> TRUE]
  /\ hist = [mesh |-> "none", camera |-> FALSE]
  /\ pipe = NoRender

Call(op, args, r) == [op |-> op, args |-> args, raised |-> r.raised]

\* A constructor that throws leaves no object behind.
Construct(op, args, r) ==
  /\ ~r.raised
  /\ cam = r.cam
  /\ call = Call(op, args, r)
  /\ probe = Idle
  /\ RendererInit

Init ==
  \/ Construct("PinholeCamera", <<>>, PinholeCamera)
  \/ \E w \in Sizes, h \in Sizes :
       Construct("PinholeCamera_wh", <<w, h>>, PinholeCamera_wh(w, h))
  \/ \E w \in FovSizes, h \in FovSizes, fov \in FovDegs :
       Construct("PinholeCamera_wh_fov", <<w, h, fov>>, PinholeCamera_wh_fov(w, h, fov))
  \/ \E w \in Sizes, h \in Sizes, p \in Poses :
       Construct("PinholeCamera_whp", <<w, h, p>>, PinholeCamera_whp(w, h, p))
  \/ \E w \in FovSizes, h \in FovSizes, p \in Poses, fov \in FovDegs :
       Construct("PinholeCamera_whp_fov", <<w, h, p, fov>>,
                 PinholeCamera_whp_fov(w, h, p, fov))
  \/ \E w \in Sizes, h \in Sizes, p \in Poses,
        pp \in PrincipalPoints, f \in FocalLengths :
       Construct("PinholeCamera_whp_pf", <<w, h, p, pp, f>>,
                 PinholeCamera_whp_pf(w, h, p, pp, f))
  \/ Construct("OrthoCamera", <<>>, OrthoCamera)
  \/ \E w \in Sizes, h \in Sizes :
       Construct("OrthoCamera_wh", <<w, h>>, OrthoCamera_wh(w, h))
  \/ \E w \in Sizes, h \in Sizes, p \in Poses :
       Construct("OrthoCamera_whp", <<w, h, p>>, OrthoCamera_whp(w, h, p))

\* A call on the object.  Nothing in the repository catches an exception, so
\* a call that throws is the last one: the object stays as the throw left it.
Do(op, args, r) ==
  /\ ~call.raised
  /\ cam' = r.cam
  /\ call' = Call(op, args, r)
  /\ UNCHANGED <<probe, rendvars>>

set_size ==
  \E w \in Sizes, h \in Sizes :
    Do("set_size", <<w, h>>,
       IF cam.kind = "Pinhole" THEN Pinhole_set_size(cam, w, h)
                               ELSE Ortho_set_size(cam, w, h))

set_c2w ==
  \E p \in Poses :
    Do("set_c2w", <<p>>,
       IF cam.kind = "Pinhole" THEN Pinhole_set_c2w(cam, p)
                               ELSE Ortho_set_c2w(cam, p))

set_principal_point ==
  /\ cam.kind = "Pinhole"
  /\ \E pp \in PrincipalPoints :
       Do("set_principal_point", <<pp>>, Pinhole_set_principal_point(cam, pp))

set_focal_length ==
  /\ cam.kind = "Pinhole"
  /\ \E f \in FocalLengths :
       Do("set_focal_length", <<f>>, Pinhole_set_focal_length(cam, f))

set_fov_x ==
  /\ cam.kind = "Pinhole"
  /\ \E fov \in FovDegs : Do("set_fov_x", <<fov>>, Pinhole_set_fov_x(cam, fov))

set_fov_y ==
  /\ cam.kind = "Pinhole"
  /\ \E fov \in FovDegs : Do("set_fov_y", <<fov>>, Pinhole_set_fov_y(cam, fov))

Next ==
  \/ set_size
  \/ set_c2w
  \/ set_principal_point
  \/ set_focal_length
  \/ set_fov_x
  \/ set_fov_y

Spec == Init /\ [][Next]_vars

(* ------------------ Project and Unproject, as a caller uses them ------- *)

Projects == {"Project3", "Project2", "Project2d"}
Unprojects == {"Unproject3", "Unproject2d"}

\* A caller's call of a const method: the camera stays as it is.  The input is
\* one of the caller's own, or (chained) what the previous call returned;
\* first is then the input of that previous call.
Probe(op, in, out, chained) ==
  /\ probe' = [op |-> op, in |-> in, out |-> out, chained |-> chained,
               first |-> IF chained THEN probe.in ELSE <<>>]
  /\ UNCHANGED <<cam, call, rendvars>>

\* The camera-space point a Project call is given: a fresh one, or the point
\* the Unproject call before it returned.
ProjectInputs ==
  [fresh : {TRUE}, p : Points]
    \cup (IF probe.op \in Unprojects /\ ~probe.chained
            THEN {[fresh |-> FALSE, p |-> probe.out]} ELSE {})

DoProject3 ==
  \E i \in ProjectInputs : Probe("Project3", i.p, Project3(cam, i.p), ~i.fresh)

DoProject2 ==
  \E i \in ProjectInputs : Probe("Project2", i.p, Project2(cam, i.p), ~i.fresh)

DoProject2d ==
  \E i \in ProjectInputs : Probe("Project2d", i.p, Project2d(cam, i.p), ~i.fresh)

\* Unproject(Vector3f): a fresh image point with depth, or the result of the
\* Project(Vector3f*) call before it.
DoUnproject3 ==
  \/ \E q \in ImagePoints : Probe("Unproject3", q, Unproject3(cam, q), FALSE)
  \/ /\ probe.op = "Project3" /\ ~probe.chained
     /\ Probe("Unproject3", probe.out, Unproject3(cam, probe.out), TRUE)

\* Unproject(Vector2f, d): a fresh image point and depth, or the result of the
\* Project call before it: with the depth it returned, or, after the overload
\* that returns none, with the depth of the point projected.
DoUnproject2d ==
  \/ \E q \in ImagePoints :
       Probe("Unproject2d", q, Unproject2d(cam, <<q[1], q[2]>>, q[3]), FALSE)
  \/ /\ probe.op = "Project2d" /\ ~probe.chained
     /\ Probe("Unproject2d", <<probe.out.image_p[1], probe.out.image_p[2], probe.out.d>>,
              Unproject2d(cam, probe.out.image_p, probe.out.d), TRUE)
  \/ /\ probe.op = "Project2" /\ ~probe.chained
     /\ Probe("Unproject2d", <<probe.out[1], probe.out[2], probe.in[3]>>,
              Unproject2d(cam, probe.out, probe.in[3]), TRUE)

NextProject ==
  \/ DoProject3
  \/ DoProject2
  \/ DoProject2d
  \/ DoUnproject3
  \/ DoUnproject2d

SpecProject == Init /\ [][NextProject]_vars

(* --------------------- the Renderer, as a caller uses it --------------- *)

RendererCall(op, r, o, ret, h) ==
  /\ rend' = r
  /\ outs' = o
  /\ rcall' = [op |-> op, ret |-> ret]
  /\ hist' = h
  /\ UNCHANGED <<camvars, pipe>>

set_option ==
  \E o \in Options :
    RendererCall("set_option", Renderer_set_option(rend, o), outs, TRUE, hist)

set_mesh ==
  \E m \in Meshes :
    RendererCall("set_mesh", Renderer_set_mesh(rend, m), outs, TRUE,
                 [hist EXCEPT !.mesh = "set"])

prepare_mesh ==
  LET r == Renderer_prepare_mesh(rend)
  IN  RendererCall("prepare_mesh", r.rend, outs, r.ret,
                   [hist EXCEPT !.mesh = IF r.ret THEN "prepared"
                                         ELSE IF @ = "none" THEN "none" ELSE "failed"])

set_camera ==
  \E c \in {Null, CameraPtr} :
    RendererCall("set_camera", Renderer_set_camera(rend, c), outs, TRUE,
                 [hist EXCEPT !.camera = ~c.null])

render ==
  LET r == Renderer_render(rend, cam, outs)
  IN  RendererCall("render", rend, r.outs, r.ret, hist)

\* The camera the renderer points at is resized between renders.
resize_camera ==
  /\ \E w \in 1..MaxSize, h \in 1..MaxSize :
       /\ cam' = (IF cam.kind = "Pinhole" THEN Pinhole_set_size(cam, w, h)
                                          ELSE Ortho_set_size(cam, w, h)).cam
       /\ call' = [op |-> "set_size", args |-> <<w, h>>, raised |-> FALSE]
  /\ UNCHANGED <<probe, rendvars>>

NextRenderer ==
  \/ set_option
  \/ set_mesh
  \/ prepare_mesh
  \/ set_camera
  \/ render
  \/ resize_camera

\* The renderer beside one camera, an OrthoCamera of the largest size.
InitRenderer ==
  /\ Construct("OrthoCamera_wh", <<MaxSize, MaxSize>>, OrthoCamera_wh(MaxSize, MaxSize))

SpecRenderer == InitRenderer /\ [][NextRenderer]_vars

(* ------------------- a render call, pixel by pixel -------------------- *)

MaxTriangles == 2

Triangles == 1..MaxTriangles

\* The largest value of the depth image, a 16-bit unsigned one.
DepthMax == 65535

Background == <<0, 0, 0>>

\* The depth accumulator's initial value, farther than every surface.
Far == <<1, 0>>

FLess(a, b) == a[1] * b[2] < b[1] * a[2]

\* round(): to the nearest integer, halves away from zero.
Round(a) ==
  IF a[1] >= 0 THEN (2 * a[1] + a[2]) \div (2 * a[2])
               ELSE -((2 * (-a[1]) + a[2]) \div (2 * a[2]))

Clamp(v, lo, hi) == IF v < lo THEN lo ELSE IF v > hi THEN hi ELSE v

\* round(hit_distance * depth_scale), clamped to the depth image's range.
DepthValue(distance, option) ==
  Clamp(Round(FMul(distance, option.depth_scale)), 0, DepthMax)

\* The pixel shader's colour for a point of triangle t, one colour per triangle.
Shade(t, option) == <<t, t, t>>

\* Hit distances, in front of the camera, and depth scales.
Distances == {Frac(1, 4), Half(1), Flt(100)}

DepthScales == {Flt(1), Flt(1000)}

Pipelines == {"raycast", "raster"}

PixelIds(c) == 1..(c.width_ * c.height_)

\* What a triangle is at a pixel: covering it at depth z, once it was
\* processed there, and unseen until then.  A triangle that does not cover the
\* pixel (outside, culled or degenerate) takes no step there and stays unseen.
Unseen == [at |-> "unseen"]
Inside(z) == [at |-> "inside", z |-> z]

\* Interpolated depths of the rasterizer.
Depths == {Half(1), Flt(100)}

Fragments == {Inside(z) : z \in Depths}

\* The answer of one nearest-hit query.
Miss == [miss |-> TRUE]
Hit(t, distance) == [miss |-> FALSE, t |-> t, distance |-> distance]

Hits == {Miss} \cup {Hit(t, d) : t \in Triangles, d \in Distances}

\* render, its preconditions met: the three images allocated at the camera's
\* size and cleared, the depth accumulator set to far, no work done yet.
Cleared(c, pipeline, option) ==
  [pipeline |-> pipeline,
   option_ |-> option,
   color |-> [i \in PixelIds(c) |-> Background],
   depth |-> [i \in PixelIds(c) |-> 0],
   mask |-> [i \in PixelIds(c) |-> 0],
   zbuf |-> [i \in PixelIds(c) |-> Far],
   seen |-> [i \in PixelIds(c) |-> [t \in Triangles |-> Unseen]],
   cast |-> [i \in PixelIds(c) |-> FALSE]]

\* A surface of triangle t written at pixel i.
WritePixel(r, i, t, distance) ==
  [r EXCEPT !.color[i] = Shade(t, r.option_),
            !.depth[i] = DepthValue(distance, r.option_),
            !.mask[i] = 1]

\* Ray-cast pipeline: one nearest-hit query for the pixel; a miss leaves the
\* pixel unwritten.
RayCast_pixel(r, i, hit) ==
  LET done == [r EXCEPT !.cast[i] = TRUE]
  IN  IF hit.miss THEN done ELSE WritePixel(done, i, hit.t, hit.distance)

\* (mutant) the update also made by a surface as near as the stored one.
Raster_update_NotStrict(r, i, t, z) ==
  IF ~FLess(r.zbuf[i], z)
    THEN [WritePixel(r, i, t, z) EXCEPT !.zbuf[i] = z]
    ELSE r

\* Rasterization pipeline: the atomic compare-and-update of one pixel, which
\* writes color, depth and mask and stores the new depth only if strictly
\* nearer than the stored value.
Raster_update(r, i, t, z) ==
  IF FLess(z, r.zbuf[i])
    THEN [WritePixel(r, i, t, z) EXCEPT !.zbuf[i] = z]
    ELSE r

\* One triangle at one inside pixel of its clipped bounding box.
Raster_fragment(r, i, t, frag) ==
  Raster_update([r EXCEPT !.seen[i][t] = frag], i, t, frag.z)

\* The render call has dispatched every pixel (ray-cast), or every triangle
\* (raster): the triangles still unseen at a pixel are those that do not cover
\* it, so a raster render may be over in any of its states.
Rendered(r) ==
  /\ r.pipeline # "none"
  /\ r.pipeline = "raycast" => \A i \in DOMAIN r.cast : r.cast[i]

PipelineStep(r) ==
  /\ pipe' = r
  /\ UNCHANGED <<camvars, rend, outs, rcall, hist>>

\* A render call starts, on fresh images or on those of the render before.
BeginRender ==
  /\ pipe.pipeline = "none" \/ Rendered(pipe)
  /\ \E pipeline \in Pipelines, scale \in DepthScales :
       PipelineStep(Cleared(cam, pipeline, [RendererOption EXCEPT !.depth_scale = scale]))

\* Pixels are cast in any order, each once.
RayCast ==
  /\ pipe.pipeline = "raycast"
  /\ \E i \in PixelIds(cam), hit \in Hits :
       /\ ~pipe.cast[i]
       /\ PipelineStep(RayCast_pixel(pipe, i, hit))

\* Triangles are processed in any order, and the pixels of different
\* triangles in any interleaving, each pixel's compare-and-update atomically.
Rasterize ==
  /\ pipe.pipeline = "raster"
  /\ \E i \in PixelIds(cam), t \in Triangles, frag \in Fragments :
       /\ pipe.seen[i][t].at = "unseen"
       /\ PipelineStep(Raster_fragment(pipe, i, t, frag))

NextPipeline ==
  \/ BeginRender
  \/ RayCast
  \/ Rasterize

\* One camera, MaxSize pixels in a row.
InitPipeline == Construct("OrthoCamera_wh", <<MaxSize, 1>>, OrthoCamera_wh(MaxSize, 1))

SpecPipeline == InitPipeline /\ [][NextPipeline]_vars

(* ------------------------ what the claims speak of -------------------- *)

\* The pixels of the camera, and sub-pixel coordinates for the continuous
\* accessors.
Pixels(c) == (0..(c.width_ - 1)) \X (0..(c.height_ - 1))

Coords == {Flt(-1), Flt(0), Half(1), Flt(2)}

Tables(c) ==
  <<c.org_ray_c_table_, c.org_ray_w_table_, c.ray_c_table_, c.ray_w_table_>>

\* C1: at every pixel each of the four discrete accessors returns what the
\* continuous accessor of the same name computes there from the current size,
\* pose and intrinsics, after construction and after every mutation.
C1_TablesFresh ==
  \A p \in Pixels(cam) :
    /\ org_ray_c_int(cam, p[1], p[2]) = org_ray_c(cam, Flt(p[1]), Flt(p[2]))
    /\ org_ray_w_int(cam, p[1], p[2]) = org_ray_w(cam, Flt(p[1]), Flt(p[2]))
    /\ ray_c_int(cam, p[1], p[2]) = ray_c(cam, Flt(p[1]), Flt(p[2]))
    /\ ray_w_int(cam, p[1], p[2]) = ray_w(cam, Flt(p[1]), Flt(p[2]))

\* A Pinhole camera of more than one row and column whose intrinsics were just
\* changed, read at its last pixel.
C1_Witness ==
  /\ cam.kind = "Pinhole"
  /\ call.op \in {"set_principal_point", "set_focal_length", "set_fov_x"}
  /\ cam.width_ >= 2 /\ cam.height_ >= 2
  /\ cam.c2w_.R = RotCycle
  /\ ray_w_int(cam, cam.width_ - 1, cam.height_ - 1).tag = "unit"

\* C2: every table has exactly width*height elements and holds the index
\* y*width+x of every pixel, in every state.
C2_TableSizes ==
  \A k \in 1..4 :
    /\ Len(Tables(cam)[k]) = cam.width_ * cam.height_
    /\ \A p \in Pixels(cam) :
         LET i == p[2] * cam.width_ + p[1]
         IN  0 <= i /\ i < Len(Tables(cam)[k])

\* What of C2 the code keeps: the tables have width*height elements after every
\* call that returned.
C2_TableSizesUnlessThrown == call.raised \/ C2_TableSizes

\* C3: a constructor or setter given a width or height <= 0, a focal length
\* with a channel <= 0, or a field of view >= 180 degrees raises an error, and
\* the camera does not hold the value.
BadSize(w, h) == w <= 0 \/ h <= 0
BadFocal(f) == ~IsPositive(f[1]) \/ ~IsPositive(f[2])
BadFov(deg) == deg >= 180

CallIsInvalid ==
  CASE call.op \in {"PinholeCamera_wh", "PinholeCamera_whp", "OrthoCamera_wh",
                    "OrthoCamera_whp", "set_size"} ->
         BadSize(call.args[1], call.args[2])
    [] call.op = "PinholeCamera_wh_fov" ->
         BadSize(call.args[1], call.args[2]) \/ BadFov(call.args[3])
    [] call.op = "PinholeCamera_whp_fov" ->
         BadSize(call.args[1], call.args[2]) \/ BadFov(call.args[4])
    [] call.op = "PinholeCamera_whp_pf" ->
         BadSize(call.args[1], call.args[2]) \/ BadFocal(call.args[5])
    [] call.op = "set_focal_length" -> BadFocal(call.args[1])
    [] call.op \in {"set_fov_x", "set_fov_y"} -> BadFov(call.args[1])
    [] OTHER -> FALSE

InvalidValueHeld ==
  \/ cam.width_ <= 0
  \/ cam.height_ <= 0
  \/ cam.kind = "Pinhole" /\ BadFocal(cam.focal_length_)

C3_InvalidRejected == CallIsInvalid => (call.raised /\ ~InvalidValueHeld)

\* C4: width and height are positive, and so are both channels of a Pinhole
\* camera's focal length, in every state.
C4_PositiveState ==
  /\ cam.width_ > 0
  /\ cam.height_ > 0
  /\ cam.kind = "Pinhole" =>
       IsPositive(cam.focal_length_[1]) /\ IsPositive(cam.focal_length_[2])

\* C7: the world-frame rays of an OrthoCamera at any two pixel coordinates have
\* the same direction, the third column of the pose rotation, and origins that
\* differ by (x2-x1) times its first column plus (y2-y1) times its second; for
\* the continuous accessors and, at pixels, for the table lookups.
PoseAxis(c, j) == FltVec(Col(c.c2w_.R, j))

OriginStep(c, x1, y1, x2, y2) ==
  VAdd(VScale(FSub(x2, x1), PoseAxis(c, 1)), VScale(FSub(y2, y1), PoseAxis(c, 2)))

C7_OrthoParallel ==
  cam.kind = "Ortho" =>
    /\ \A x1 \in Coords, y1 \in Coords, x2 \in Coords, y2 \in Coords :
         /\ ray_w(cam, x1, y1) = PoseAxis(cam, 3)
         /\ ray_w(cam, x2, y2) = ray_w(cam, x1, y1)
         /\ VSub(org_ray_w(cam, x2, y2), org_ray_w(cam, x1, y1))
              = OriginStep(cam, x1, y1, x2, y2)
    /\ \A p \in Pixels(cam), q \in Pixels(cam) :
         /\ ray_w_int(cam, p[1], p[2]) = PoseAxis(cam, 3)
         /\ ray_w_int(cam, q[1], q[2]) = ray_w_int(cam, p[1], p[2])
         /\ VSub(org_ray_w_int(cam, q[1], q[2]), org_ray_w_int(cam, p[1], p[2]))
              = OriginStep(cam, Flt(p[1]), Flt(p[2]), Flt(q[1]), Flt(q[2]))

\* An OrthoCamera of several rows and columns under the rotated pose.
C7_Witness ==
  /\ cam.kind = "Ortho"
  /\ call.op = "set_c2w" /\ ~call.raised
  /\ cam.c2w_.R = RotCycle
  /\ cam.width_ >= 2 /\ cam.height_ >= 2
  /\ org_ray_w_int(cam, 1, 1) # org_ray_w_int(cam, 0, 0)

\* C8: at every pixel coordinate of a PinholeCamera the camera-frame origin is
\* (0,0,0), the world-frame origin is the translation of the current pose, and
\* the world-frame direction is the current pose rotation applied to the
\* camera-frame direction there; a set_c2w call leaves the camera-frame
\* origins and directions as they were.
C8_PinholeFrames ==
  cam.kind = "Pinhole" =>
    /\ \A x \in Coords, y \in Coords :
         /\ org_ray_c(cam, x, y) = Vec(Flt(0), Flt(0), Flt(0))
         /\ org_ray_w(cam, x, y) = FltVec(cam.c2w_.t)
         /\ ray_w(cam, x, y) = MatVec(cam.c2w_.R, ray_c(cam, x, y))
    /\ \A p \in Pixels(cam) :
         /\ org_ray_c_int(cam, p[1], p[2]) = Vec(Flt(0), Flt(0), Flt(0))
         /\ org_ray_w_int(cam, p[1], p[2]) = FltVec(cam.c2w_.t)
         /\ ray_w_int(cam, p[1], p[2])
              = MatVec(cam.c2w_.R, ray_c_int(cam, p[1], p[2]))

C8_PoseStep ==
  (cam.kind = "Pinhole" /\ call'.op = "set_c2w") =>
    /\ \A x \in Coords, y \in Coords :
         /\ org_ray_c(cam', x, y) = org_ray_c(cam, x, y)
         /\ ray_c(cam', x, y) = ray_c(cam, x, y)
    /\ \A p \in Pixels(cam) :
         /\ org_ray_c_int(cam', p[1], p[2]) = org_ray_c_int(cam, p[1], p[2])
         /\ ray_c_int(cam', p[1], p[2]) = ray_c_int(cam, p[1], p[2])

C8_PinholePose == []C8_PinholeFrames /\ [][C8_PoseStep]_vars

\* A PinholeCamera with positive focal length just moved to the rotated pose.
C8_Witness ==
  /\ cam.kind = "Pinhole"
  /\ call.op = "set_c2w" /\ ~call.raised
  /\ cam.c2w_ = Affine(RotCycle, <<1, -2, 3>>)
  /\ cam.width_ >= 2 /\ cam.height_ >= 2
  /\ ~BadFocal(cam.focal_length_)
  /\ ray_w_int(cam, 1, 1) # ray_c_int(cam, 1, 1)

\* C5: a PinholeCamera with positive focal length takes a camera-space point
\* with z > 0 through Project and the matching Unproject, at the same depth,
\* back to the point itself, for each of the three Project overloads; and the
\* depth Project returns is z.
C5_PinholeRoundTrip ==
  (cam.kind = "Pinhole" /\ ~BadFocal(cam.focal_length_)) =>
    /\ (probe.op \in Unprojects /\ probe.chained /\ IsPositive(probe.first[3]))
         => probe.out = probe.first
    /\ (probe.op = "Project3" /\ IsPositive(probe.in[3])) => probe.out[3] = probe.in[3]
    /\ (probe.op = "Project2d" /\ IsPositive(probe.in[3])) => probe.out.d = probe.in[3]

\* A point off the optical axis, in front of a Pinhole camera whose principal
\* point and focal length are not trivial, brought back by Unproject.
C5_Witness ==
  /\ cam.kind = "Pinhole"
  /\ cam.focal_length_ = <<Flt(2), Half(1)>>
  /\ cam.principal_point_ = <<Half(1), Flt(1)>>
  /\ probe.op = "Unproject2d" /\ probe.chained
  /\ probe.first = <<Flt(2), Flt(-3), Flt(2)>>
  /\ probe.in # probe.first

C9_RenderStep ==
  rcall'.op = "render" =>
    /\ (hist.mesh # "prepared" \/ ~hist.camera) => (~rcall'.ret /\ outs' = outs)
    /\ rcall'.ret => (hist.mesh = "prepared" /\ hist.camera /\ outs'.written)

C10_SetMeshUnprepares ==
  hist.mesh = "set" =>
    /\ ~Renderer_ready(rend)
    /\ rcall.op = "render" => ~rcall.ret

\* A render refused after a second mesh was set, the first one having been
\* prepared and rendered with the camera still set.
C10_Witness ==
  /\ rcall.op = "render" /\ ~rcall.ret
  /\ hist.mesh = "set" /\ hist.camera
  /\ outs.written /\ outs.mesh = "triangle"
  /\ rend.mesh_.name = "quad"

\* C13: at every pixel of an OrthoCamera of positive size with the identity
\* pose, the camera-frame origin is (x - width/2, y - height/2, 0) with the
\* halves taken exactly, and equals the world-frame origin, for the continuous
\* and for the discrete accessors.
C13_OrthoOriginsCoincide ==
  (/\ cam.kind = "Ortho" /\ ~call.raised
   /\ cam.c2w_ = AffineIdentity
   /\ cam.width_ > 0 /\ cam.height_ > 0) =>
    /\ \A x \in Coords, y \in Coords :
         /\ org_ray_c(cam, x, y)
              = Vec(FSub(x, Half(cam.width_)), FSub(y, Half(cam.height_)), Flt(0))
         /\ org_ray_c(cam, x, y) = org_ray_w(cam, x, y)
    /\ \A p \in Pixels(cam) :
         /\ org_ray_c_int(cam, p[1], p[2])
              = Vec(FSub(Flt(p[1]), Half(cam.width_)),
                    FSub(Flt(p[2]), Half(cam.height_)), Flt(0))
         /\ org_ray_c_int(cam, p[1], p[2]) = org_ray_w_int(cam, p[1], p[2])

\* The same for even sizes only, where width_ / 2 loses nothing.
C13_EvenSizesCoincide ==
  (/\ cam.kind = "Ortho" /\ ~call.raised
   /\ cam.c2w_ = AffineIdentity
   /\ cam.width_ > 0 /\ cam.height_ > 0
   /\ cam.width_ % 2 = 0 /\ cam.height_ % 2 = 0) =>
    /\ \A x \in Coords, y \in Coords :
         org_ray_c(cam, x, y) = org_ray_w(cam, x, y)
    /\ \A p \in Pixels(cam) :
         org_ray_c_int(cam, p[1], p[2]) = org_ray_w_int(cam, p[1], p[2])

\* The constructors that take a field of view, and the width, height and
\* field of view such a call was given.
FovConstructors == {"PinholeCamera_wh_fov", "PinholeCamera_whp_fov"}

FovArg(c) == c.args[Len(c.args)]

\* C14: a set_size(w, h) call stores w and h and leaves every member other
\* than width, height and the four tables as it was: pose, inverse pose and,
\* for a PinholeCamera, principal point and focal length.  Made right after a
\* construction from a field of view with a different size, it leaves the
\* principal point off the new centre and fov_x / fov_y off their old values
\* in each dimension that changed.
C14_ResizeStep ==
  call'.op = "set_size" =>
    /\ cam'.width_ = call'.args[1] /\ cam'.height_ = call'.args[2]
    /\ cam'.c2w_ = cam.c2w_ /\ cam'.w2c_ = cam.w2c_
    /\ cam.kind = "Pinhole" =>
         /\ cam'.principal_point_ = cam.principal_point_
         /\ cam'.focal_length_ = cam.focal_length_
    /\ [cam' EXCEPT !.width_ = cam.width_, !.height_ = cam.height_,
                    !.org_ray_c_table_ = cam.org_ray_c_table_,
                    !.org_ray_w_table_ = cam.org_ray_w_table_,
                    !.ray_c_table_ = cam.ray_c_table_,
                    !.ray_w_table_ = cam.ray_w_table_] = cam
    /\ call.op \in FovConstructors =>
         /\ cam'.width_ # cam.width_ =>
              /\ cam'.principal_point_[1] # FSub(Half(cam'.width_), Half(1))
              /\ Pinhole_fov_x(cam') # Pinhole_fov_x(cam)
         /\ cam'.height_ # cam.height_ =>
              /\ cam'.principal_point_[2] # FSub(Half(cam'.height_), Half(1))
              /\ Pinhole_fov_y(cam') # TanHalfDeg(FovArg(call))
              /\ Pinhole_fov_y(cam') # Pinhole_fov_y(cam)

C14_ResizeKeepsIntrinsics == [][C14_ResizeStep]_vars

\* A PinholeCamera built 1 x 1 from a field of view of 90 degrees and resized
\* to 2 x 2: principal point and focal length are still those of 1 x 1.
C14_Witness ==
  /\ cam.kind = "Pinhole"
  /\ call.op = "set_size" /\ ~call.raised /\ call.args = <<2, 2>>
  /\ cam.width_ = 2 /\ cam.height_ = 2
  /\ cam.principal_point_ = <<Flt(0), Flt(0)>>
  /\ cam.focal_length_ = <<Half(1), Half(1)>>
  /\ Pinhole_fov_y(cam) # TanHalfDeg(90)

\* C11: once a render call has dispatched all its work, at every pixel the
\* mask is 1 exactly when the depth is positive, and a pixel with mask 0 has
\* the background colour, whatever the hit distances and the depth scale.
C11_MaskDepthPaired ==
  Rendered(pipe) =>
    \A i \in PixelIds(cam) :
      /\ pipe.mask[i] = 1 <=> pipe.depth[i] > 0
      /\ pipe.mask[i] = 0 => pipe.color[i] = Background

\* The half of it that does not depend on the rounding: a positive depth has
\* mask 1, and mask 0 has depth 0 and the background colour.
C11_UnwrittenPixels ==
  Rendered(pipe) =>
    \A i \in PixelIds(cam) :
      /\ pipe.depth[i] > 0 => pipe.mask[i] = 1
      /\ pipe.mask[i] = 0 => (pipe.depth[i] = 0 /\ pipe.color[i] = Background)

\* What the render holds for one pixel: color, depth, mask and the depth
\* accumulator.
Cell(r, i) == <<r.color[i], r.depth[i], r.mask[i], r.zbuf[i]>>

\* The cell a surface of triangle t at depth z leaves when it is written.
CellOf(r, t, z) == <<Shade(t, r.option_), DepthValue(z, r.option_), 1, z>>

\* The triangles processed so far that cover pixel i.
Covering(r, i) == {t \in Triangles : r.seen[i][t].at = "inside"}

\* C12: in a raster render, whatever the order of the triangles and the
\* interleaving of the per-pixel compare-and-update steps, each pixel holds
\* the least depth over the triangles that cover it, with color, depth and
\* mask all of one triangle at that depth, and is cleared if none covers it;
\* a step changes its pixel only for a triangle strictly nearer than the
\* stored depth, so of triangles at equal depth the first processed is kept.
C12_NearestKept ==
  pipe.pipeline = "raster" =>
    \A i \in PixelIds(cam) :
      IF Covering(pipe, i) = {}
        THEN Cell(pipe, i) = <<Background, 0, 0, Far>>
        ELSE /\ \A t \in Covering(pipe, i) : ~FLess(pipe.seen[i][t].z, pipe.zbuf[i])
             /\ \E t \in Covering(pipe, i) :
                  /\ pipe.seen[i][t].z = pipe.zbuf[i]
                  /\ Cell(pipe, i) = CellOf(pipe, t, pipe.zbuf[i])

C12_UpdateStep ==
  (pipe.pipeline = "raster" /\ pipe'.pipeline = "raster") =>
    \A i \in PixelIds(cam), t \in Triangles :
      (pipe.seen[i][t].at = "unseen" /\ pipe'.seen[i][t].at # "unseen") =>
        /\ \A j \in PixelIds(cam) \ {i} : Cell(pipe', j) = Cell(pipe, j)
        /\ Cell(pipe', i) =
             IF FLess(pipe'.seen[i][t].z, pipe.zbuf[i])
               THEN CellOf(pipe, t, pipe'.seen[i][t].z)
               ELSE Cell(pipe, i)

C12_ZBuffer == []C12_NearestKept /\ [][C12_UpdateStep]_vars

\* A finished raster render where pixel 1 has both triangles at one depth and
\* shows triangle 2, processed first, and pixel 2 shows the nearer triangle 2
\* over triangle 1.
C12_Witness ==
  /\ pipe.pipeline = "raster" /\ Rendered(pipe)
  /\ pipe.seen[1][1] = Inside(Half(1)) /\ pipe.seen[1][2] = Inside(Half(1))
  /\ pipe.color[1] = Shade(2, pipe.option_)
  /\ pipe.seen[2][1] = Inside(Flt(100)) /\ pipe.seen[2][2] = Inside(Half(1))
  /\ pipe.color[2] = Shade(2, pipe.option_)
  /\ pipe.depth[2] = DepthValue(Half(1), pipe.option_)

=============================================================================
